---------------------------- MODULE Spec2Model ----------------------------
(***************************************************************************)
(* A state-machine model of vid2cleantxt/transcribe.py: the run driver     *)
(* transcribe_dir, the two inference loops transcribe_video_whisper and    *)
(* transcribe_video_wav2vec, save_transc_results and postprocess_transc.   *)
(* Text is a sequence of one-character strings, so that substring tests,   *)
(* joins and splits are computed the way the Python code computes them.    *)
(***************************************************************************)
EXTENDS Integers, Sequences, FiniteSets, TLC

(***************************************************************************)
(* Bounds of the model.                                                    *)
(***************************************************************************)
\* media files found in the input directory: 0..MaxFiles
MaxFiles == 2
\* longest media file, in seconds
MaxDur == 65
\* transcript files left in the transcripts directory by an earlier run
MaxPrior == 1
\* the clock readings of a run: 0..MaxClock
MaxClock == 1
\* calls a direct caller makes of an inference function
MaxCalls == 2

(***************************************************************************)
(* Program constants.                                                      *)
(***************************************************************************)
\* approx_sizes["base"] and approx_sizes["large"] of wav2vec2_islarge
ApproxSizeBase == 94396320
ApproxSizeLarge == 315471520
\* chunk_length: int = 30, the default chunk duration of transcribe_dir
DefaultChunkLength == 30

(***************************************************************************)
(* Strings.                                                                *)
(***************************************************************************)
UpperAlpha ==
    <<"A","B","C","D","E","F","G","H","I","J","K","L","M",
      "N","O","P","Q","R","S","T","U","V","W","X","Y","Z">>
LowerAlpha ==
    <<"a","b","c","d","e","f","g","h","i","j","k","l","m",
      "n","o","p","q","r","s","t","u","v","w","x","y","z">>

\* one character of str.lower()
LowerChar(c) ==
    IF \E k \in 1..26 : UpperAlpha[k] = c
    THEN LowerAlpha[CHOOSE k \in 1..26 : UpperAlpha[k] = c]
    ELSE c

\* str.lower()
Lower(s) == [k \in 1..Len(s) |-> LowerChar(s[k])]

\* Python's  sub in s
Contains(s, sub) ==
    \E k \in 0..(Len(s) - Len(sub)) : SubSeq(s, k + 1, k + Len(sub)) = sub

StrWhisper == <<"w","h","i","s","p","e","r">>
StrWavlm == <<"w","a","v","l","m">>
StrHubert == <<"h","u","b","e","r","t">>

\* the value None of a model_id that was not given
NoneVal == <<"None">>

\* "openai/whisper-base.en", the default of the command line's --model
IdWhisperBaseEn ==
    <<"o","p","e","n","a","i","/","w","h","i","s","p","e","r","-","b","a","s","e",".","e","n">>
\* "OpenAI/Whisper-tiny"
IdWhisperMixed ==
    <<"O","p","e","n","A","I","/","W","h","i","s","p","e","r","-","t","i","n","y">>
\* "facebook/hubert-large-ls960-ft", the default model transcribe_dir documents
IdHubertLarge ==
    <<"f","a","c","e","b","o","o","k","/","h","u","b","e","r","t","-","l","a","r","g","e","-","l","s","9","6","0","-","f","t">>
\* "facebook/wav2vec2-base-960h"
IdWav2Vec2Base ==
    <<"f","a","c","e","b","o","o","k","/","w","a","v","2","v","e","c","2","-","b","a","s","e","-","9","6","0","h">>
\* "ms/WavLM-base"
IdWavLM ==
    <<"m","s","/","W","a","v","L","M","-","b","a","s","e">>
\* "x/hubert-wavlm"
IdWavLMHubert ==
    <<"x","/","h","u","b","e","r","t","-","w","a","v","l","m">>
\* "x/HuBERT-b"
IdHubertMixed ==
    <<"x","/","H","u","B","E","R","T","-","b">>

WhisperIds == {IdWhisperBaseEn, IdWhisperMixed}
CtcIds == {IdHubertLarge, IdHubertMixed, IdWav2Vec2Base, IdWavLM,
           IdWavLMHubert}
ModelIds == WhisperIds \cup CtcIds

(***************************************************************************)
(* The environment of a run.                                               *)
(***************************************************************************)
\* the media files of the input directory, in the order they are found
Files == <<"a.mp4", "b.wav", "c.mp3", "d.mkv">>
\* durations, in seconds, a media file may have
Durations == {5, MaxDur}
\* values of chunk_length / chunk_dur
ChunkLengths == {DefaultChunkLength, 40}
\* parameter counts a loaded model may report: the two reference sizes and
\* the point at equal distance from both
Midpoint == (ApproxSizeBase + ApproxSizeLarge) \div 2
NumParams == {ApproxSizeBase, ApproxSizeLarge, Midpoint}
\* the public entry points of the module
Entries == {"transcribe_dir", "transcribe_video_whisper", "transcribe_video_wav2vec"}

VARIABLES
    \* arguments and environment
    entry, model_id, basic_spelling, move_comp, chunk_length, cuda_available,
    nprior,
    \* the wall clock, the calls a direct caller has made, the final report
    clock, calls, report,
    \* transcribe_dir
    pc, exc, is_whisper, model, loaded, base_spelling, checker, stdout,
    initLog, approved_files, fileIdx,
    \* transcribe_video_whisper / transcribe_video_wav2vec
    variant, clip_name, clip_dur, scratch, chunk_directory, full_transc, i,
    inflight, held, device, use_attn, GPU_update_incr, checkpoints,
    cacheEmptied, maskPassed, loopLog,
    \* the output directories
    transcripts, metadata, completed,
    \* postprocess_transc
    ppChecker, ppMethod, txt_files, ppIdx, PL_out, kw_all_vids, corrected,
    kwdb, processed_dir

envVars == <<entry, model_id, basic_spelling, move_comp, chunk_length,
             cuda_available, nprior>>
runVars == <<is_whisper, model, loaded, base_spelling, checker, stdout,
             initLog, approved_files, fileIdx>>
loopVars == <<variant, clip_name, clip_dur, scratch, chunk_directory,
              full_transc, i, inflight, held, device, use_attn,
              GPU_update_incr, checkpoints, cacheEmptied, maskPassed>>
outVars == <<transcripts, metadata, completed>>
ppVars == <<ppChecker, ppMethod, txt_files, ppIdx, PL_out, kw_all_vids,
            corrected, kwdb, processed_dir>>
sysVars == <<clock, calls, report>>
vars == <<envVars, sysVars, pc, exc, runVars, loopVars, loopLog, outVars,
          ppVars>>

(***************************************************************************)
(* The state after the arguments are bound and before the first statement. *)
(***************************************************************************)
Init ==
    /\ entry \in Entries
    /\ model_id \in CASE entry = "transcribe_dir" -> ModelIds \cup {NoneVal}
                      [] entry = "transcribe_video_whisper" -> WhisperIds
                      [] OTHER -> CtcIds
    /\ basic_spelling \in BOOLEAN
    /\ move_comp \in BOOLEAN
    /\ chunk_length \in ChunkLengths
    /\ cuda_available \in BOOLEAN
    /\ nprior \in 0..MaxPrior
    /\ (entry # "transcribe_dir") =>
           (~basic_spelling /\ ~move_comp /\ nprior = 0)
    /\ clock = 0
    /\ calls = 0
    /\ report = <<>>
    /\ pc = "start"
    /\ exc = "none"
    /\ is_whisper = FALSE
    /\ model = NoneVal
    /\ loaded = [family |-> "none", nparams |-> 0]
    /\ base_spelling = FALSE
    /\ checker = [kind |-> "None", id |-> 0]
    /\ stdout = "console"
    /\ initLog = <<>>
    /\ approved_files = <<>>
    /\ fileIdx = 0
    /\ variant = "none"
    /\ clip_name = "none"
    /\ clip_dur = 0
    /\ scratch = [exists |-> FALSE, chunks |-> {}]
    /\ chunk_directory = <<>>
    /\ full_transc = <<>>
    /\ i = 0
    /\ inflight = {}
    /\ held = {}
    /\ device = "none"
    /\ use_attn = FALSE
    /\ GPU_update_incr = 0
    /\ checkpoints = {}
    /\ cacheEmptied = 0
    /\ maskPassed = {}
    /\ loopLog = <<>>
    /\ transcripts = <<>>
    /\ metadata = <<>>
    /\ completed = {}
    /\ ppChecker = [kind |-> "None", id |-> 0]
    /\ ppMethod = "none"
    /\ txt_files = <<>>
    /\ ppIdx = 0
    /\ PL_out = "unbound"
    /\ kw_all_vids = <<>>
    /\ corrected = <<>>
    /\ kwdb = <<>>
    /\ processed_dir = "none"

(***************************************************************************)
(* transcribe_dir: model selection and loading.                            *)
(***************************************************************************)
\* the names the module defines or imports that the loading step calls
DefinedNames == {"load_whisper_modules", "load_wav2vec2_modules"}

\* line 596:  "whisper" in model_id.lower()
IsWhisperId(id) == Contains(Lower(id), StrWhisper)

\* lines 601-603: the model name that is loaded
ModelName(id) == IF id = NoneVal THEN IdHubertLarge ELSE id

\* lines 604-606: the loader transcribe_dir calls
LoaderName(whisper) ==
    IF whisper THEN "laod_whisper_modules" ELSE "load_wav2vec2_modules"

\* Wav2vec2Family with the test for hubert made first
Wav2vec2Family_HubertFirst(hf_id) ==
    IF Contains(Lower(hf_id), StrHubert) THEN "HubertForCTC"
    ELSE IF Contains(Lower(hf_id), StrWavlm) THEN "WavLMForCTC"
    ELSE "Wav2Vec2ForCTC"

\* load_wav2vec2_modules: the model class chosen from the identifier
Wav2vec2Family(hf_id) ==
    IF Contains(Lower(hf_id), StrWavlm) THEN "WavLMForCTC"
    ELSE IF Contains(Lower(hf_id), StrHubert) THEN "HubertForCTC"
    ELSE "Wav2Vec2ForCTC"

\* load_whisper_modules: the model class it loads
WhisperFamily(hf_id) == "WhisperForConditionalGeneration"

\* line 596: model_id.lower() raises AttributeError when model_id is None
TD_CheckWhisper ==
    /\ pc = "start"
    /\ entry = "transcribe_dir"
    /\ IF model_id = NoneVal
       THEN /\ pc' = "raised"
            /\ exc' = "AttributeError"
            /\ UNCHANGED is_whisper
       ELSE /\ pc' = "load"
            /\ is_whisper' = IsWhisperId(model_id)
            /\ UNCHANGED exc
    /\ UNCHANGED <<envVars, sysVars, model, loaded, base_spelling, checker, stdout,
                   initLog, approved_files, fileIdx, loopVars, loopLog,
                   outVars, ppVars>>

\* lines 601-606: the loader's name is looked up when it is called
\* the parameter counts of the models transcribe_dir loads: every count for
\* a Wav2Vec2ForCTC, whose count decides the attention mask, and the large
\* one, the nearest to a mask, for the classes whose count is never read;
\* direct callers load every class with every count
DirNumParams(family) ==
    IF family = "Wav2Vec2ForCTC" THEN NumParams ELSE {ApproxSizeLarge}

TD_LoadModel ==
    /\ pc = "load"
    /\ model' = ModelName(model_id)
    /\ IF LoaderName(is_whisper) \notin DefinedNames
       THEN /\ pc' = "raised"
            /\ exc' = "NameError"
            /\ UNCHANGED loaded
       ELSE /\ pc' = "acquire"
            /\ LET family == IF is_whisper THEN WhisperFamily(model')
                             ELSE Wav2vec2Family(model')
               IN \E p \in DirNumParams(family) :
                     loaded' = [family |-> family, nparams |-> p]
            /\ UNCHANGED exc
    /\ UNCHANGED <<envVars, sysVars, is_whisper, base_spelling, checker, stdout,
                   initLog, approved_files, fileIdx, loopVars, loopLog,
                   outVars, ppVars>>

(***************************************************************************)
(* transcribe_dir: acquiring the spell checker (lines 607-627).            *)
(***************************************************************************)
NoHandle == [kind |-> "None", id |-> 0]

\* an entry of the log of initialiser calls and warnings
Call(name, ok) == [call |-> name, ok |-> ok]

\* the handle an initialiser returns: a new object at every call
NewHandle(kind, log) ==
    [kind |-> kind,
     id |-> 1 + Cardinality({k \in 1..Len(log) :
                                 log[k].call \in {"init_neuspell",
                                                  "init_symspell"}})]

\* AcquireChecker without the except branch: a failure of init_neuspell
\* leaves the step
AcquireChecker_NoFallback(forced, neuOk, symOk) ==
    IF forced
    THEN IF symOk
         THEN [checker |-> NewHandle("symspell", <<>>), base_spelling |-> TRUE,
               exc |-> "none", log |-> <<Call("init_symspell", TRUE)>>,
               stdout |-> "console"]
         ELSE [checker |-> NoHandle, base_spelling |-> TRUE,
               exc |-> "CorrectorInitError",
               log |-> <<Call("init_symspell", FALSE)>>,
               stdout |-> "NullIO"]
    ELSE IF neuOk
    THEN [checker |-> NewHandle("neuspell", <<>>), base_spelling |-> FALSE,
          exc |-> "none", log |-> <<Call("init_neuspell", TRUE)>>,
          stdout |-> "console"]
    ELSE [checker |-> NoHandle, base_spelling |-> FALSE,
          exc |-> "CorrectorInitError",
          log |-> <<Call("init_neuspell", FALSE)>>, stdout |-> "NullIO"]

\* lines 608-627 as a function of the flag and of what the two initialisers
\* do: the checker, base_spelling, the exception that leaves the step, the
\* calls and warnings made, and sys.stdout afterwards
AcquireChecker(forced, neuOk, symOk) ==
    IF forced
    THEN \* line 611
         IF symOk
         THEN [checker |-> NewHandle("symspell", <<>>), base_spelling |-> TRUE,
               exc |-> "none", log |-> <<Call("init_symspell", TRUE)>>,
               stdout |-> "console"]
         ELSE [checker |-> NoHandle, base_spelling |-> TRUE,
               exc |-> "CorrectorInitError",
               log |-> <<Call("init_symspell", FALSE)>>,
               stdout |-> "NullIO"]
    ELSE IF neuOk
    THEN \* line 614
         [checker |-> NewHandle("neuspell", <<>>), base_spelling |-> FALSE,
          exc |-> "none", log |-> <<Call("init_neuspell", TRUE)>>,
          stdout |-> "console"]
    ELSE \* lines 616-625
         IF symOk
         THEN [checker |-> NewHandle("symspell",
                                     <<Call("init_neuspell", FALSE)>>),
               base_spelling |-> TRUE, exc |-> "none",
               log |-> <<Call("init_neuspell", FALSE),
                         Call("logging.warning", TRUE),
                         Call("init_symspell", TRUE)>>,
               stdout |-> "console"]
         ELSE [checker |-> NoHandle, base_spelling |-> TRUE,
               exc |-> "CorrectorInitError",
               log |-> <<Call("init_neuspell", FALSE),
                         Call("logging.warning", TRUE),
                         Call("init_symspell", FALSE)>>,
               stdout |-> "NullIO"]

TD_AcquireChecker ==
    /\ pc = "acquire"
    /\ \E neuOk \in BOOLEAN, symOk \in BOOLEAN :
          LET r == AcquireChecker(basic_spelling, neuOk, symOk) IN
          /\ checker' = r.checker
          /\ base_spelling' = r.base_spelling
          /\ exc' = r.exc
          /\ initLog' = initLog \o r.log
          /\ stdout' = r.stdout
          /\ pc' = IF r.exc = "none" THEN "scan" ELSE "raised"
    /\ UNCHANGED <<envVars, sysVars, is_whisper, model, loaded, approved_files,
                   fileIdx, loopVars, loopLog, outVars, ppVars>>

(***************************************************************************)
(* transcribe_dir: the files of the run (lines 629-635).                   *)
(***************************************************************************)
TD_ScanFiles ==
    /\ pc = "scan"
    /\ \E n \in 0..MaxFiles : approved_files' = SubSeq(Files, 1, n)
    /\ fileIdx' = 1
    /\ pc' = "files"
    /\ UNCHANGED <<envVars, sysVars, exc, is_whisper, model, loaded, base_spelling,
                   checker, stdout, initLog, loopVars, loopLog, outVars,
                   ppVars>>

\* lines 641-657: the inference function called for a file
VariantFor(whisper) == IF whisper THEN "whisper" ELSE "wav2vec"

\* lines 636-657: the loop over the files; after the last, postprocessing
TD_NextFile ==
    /\ pc = "files"
    /\ IF fileIdx <= Len(approved_files)
       THEN /\ variant' = VariantFor(is_whisper)
            /\ clip_name' = approved_files[fileIdx]
            /\ loopLog' = Append(loopLog, [file |-> approved_files[fileIdx],
                                           variant |-> VariantFor(is_whisper),
                                           outcome |-> "running",
                                           dur |-> 0, dir |-> <<>>])
            /\ pc' = "segment"
       ELSE /\ pc' = "post"
            /\ UNCHANGED <<variant, clip_name, loopLog>>
    /\ UNCHANGED <<envVars, sysVars, exc, runVars, clip_dur, scratch, chunk_directory,
                   full_transc, i, inflight, held, device, use_attn,
                   GPU_update_incr, checkpoints, cacheEmptied, maskPassed,
                   outVars, ppVars>>

\* a caller that loads the modules with load_whisper_modules and calls
\* transcribe_video_whisper on one file
Direct_Whisper ==
    /\ pc = "start"
    /\ entry = "transcribe_video_whisper"
    /\ model' = model_id
    /\ \E p \in NumParams :
          loaded' = [family |-> WhisperFamily(model_id), nparams |-> p]
    /\ variant' = "whisper"
    /\ clip_name' = Files[1]
    /\ loopLog' = Append(loopLog, [file |-> Files[1], variant |-> "whisper",
                                   outcome |-> "running",
                                   dur |-> 0, dir |-> <<>>])
    /\ calls' = 1
    /\ pc' = "segment"
    /\ UNCHANGED <<envVars, clock, report, exc, is_whisper, base_spelling,
                   checker, stdout, initLog, approved_files, fileIdx,
                   clip_dur, scratch, chunk_directory, full_transc, i,
                   inflight, held, device, use_attn, GPU_update_incr,
                   checkpoints, cacheEmptied, maskPassed, outVars, ppVars>>

\* a caller that loads the modules with load_wav2vec2_modules and calls
\* transcribe_video_wav2vec on one file
Direct_Wav2vec ==
    /\ pc = "start"
    /\ entry = "transcribe_video_wav2vec"
    /\ model' = model_id
    /\ \E p \in NumParams :
          loaded' = [family |-> Wav2vec2Family(model_id), nparams |-> p]
    /\ variant' = "wav2vec"
    /\ clip_name' = Files[1]
    /\ loopLog' = Append(loopLog, [file |-> Files[1], variant |-> "wav2vec",
                                   outcome |-> "running",
                                   dur |-> 0, dir |-> <<>>])
    /\ calls' = 1
    /\ pc' = "segment"
    /\ UNCHANGED <<envVars, clock, report, exc, is_whisper, base_spelling,
                   checker, stdout, initLog, approved_files, fileIdx,
                   clip_dur, scratch, chunk_directory, full_transc, i,
                   inflight, held, device, use_attn, GPU_update_incr,
                   checkpoints, cacheEmptied, maskPassed, outVars, ppVars>>

\* the caller calls the same inference function again, with the same model
\* and chunk length, on the same file or on another one; an exception of the
\* call before was caught by the caller, and the locals of that call are gone
Direct_Again ==
    /\ pc \in {"done", "raised"}
    /\ entry \in {"transcribe_video_whisper", "transcribe_video_wav2vec"}
    /\ calls \in 1..(MaxCalls - 1)
    /\ calls' = calls + 1
    /\ \E k \in 1..2 :
          /\ clip_name' = Files[k]
          /\ loopLog' = Append(loopLog, [file |-> Files[k],
                                         variant |-> variant,
                                         outcome |-> "running",
                                         dur |-> 0, dir |-> <<>>])
    /\ exc' = "none"
    /\ inflight' = {}
    /\ held' = {}
    /\ pc' = "segment"
    /\ UNCHANGED <<envVars, clock, report, runVars, variant, clip_dur, scratch,
                   chunk_directory, full_transc, i, device, use_attn,
                   GPU_update_incr, checkpoints, cacheEmptied, maskPassed,
                   outVars, ppVars>>

\* the clock moves while a file is transcribed; the inference functions read
\* it for the metadata row, so it is enough that it moves before that read
Tick ==
    /\ pc = "finish"
    /\ clock < MaxClock
    /\ clock' = clock + 1
    /\ UNCHANGED <<envVars, calls, report, pc, exc, runVars, loopVars, loopLog,
                   outVars, ppVars>>

\* the lengths the clip may have: a file read before has the length it had
KnownDurations ==
    {loopLog[k].dur : k \in {j \in 1..Len(loopLog) :
                                 /\ loopLog[j].file = clip_name
                                 /\ loopLog[j].dur # 0}}
ClipDurations == IF KnownDurations = {} THEN Durations ELSE KnownDurations

(***************************************************************************)
(* Text: the join, the normalisation and the split of lines 312-321.       *)
(***************************************************************************)
NL == "\n"
SP == " "

\* sep.join(parts)
RECURSIVE Join(_, _)
Join(sep, parts) ==
    IF parts = <<>> THEN <<>>
    ELSE IF Len(parts) = 1 THEN parts[1]
    ELSE parts[1] \o sep \o Join(sep, Tail(parts))

\* s.split(" "): the pieces between single spaces, empty pieces kept
RECURSIVE Split(_)
Split(s) ==
    IF \A k \in 1..Len(s) : s[k] # SP THEN <<s>>
    ELSE LET k == CHOOSE k \in 1..Len(s) :
                     s[k] = SP /\ \A j \in 1..(k - 1) : s[j] # SP
         IN <<SubSeq(s, 1, k - 1)>> \o Split(SubSeq(s, k + 1, Len(s)))

IsWs(c) == c \in {SP, NL}

\* every run of whitespace becomes one space
RECURSIVE Collapse(_)
Collapse(s) ==
    IF s = <<>> THEN <<>>
    ELSE IF IsWs(Head(s))
    THEN IF Tail(s) # <<>> /\ IsWs(Head(Tail(s)))
         THEN Collapse(Tail(s))
         ELSE <<SP>> \o Collapse(Tail(s))
    ELSE <<Head(s)>> \o Collapse(Tail(s))

\* s.strip()
RECURSIVE Strip(_)
Strip(s) ==
    IF s = <<>> THEN <<>>
    ELSE IF IsWs(Head(s)) THEN Strip(Tail(s))
    ELSE IF IsWs(s[Len(s)]) THEN Strip(SubSeq(s, 1, Len(s) - 1))
    ELSE s

\* corr of audio2text_functions: the corpus-level normalisation pass,
\* deterministic and idempotent
corr(s) == Strip(Collapse(s))

(***************************************************************************)
(* The segmenter and the acoustic model.                                   *)
(***************************************************************************)
\* ceil(a / b) for b > 0
CeilDiv(a, b) == (a + b - 1) \div b

\* prep_transc_pydub: the chunks of a clip of T seconds cut every D seconds,
\* the last one possibly shorter
Segment(clip, T, D) ==
    [k \in 1..CeilDiv(T, D) |->
        [file |-> clip, idx |-> k - 1,
         dur |-> IF k < CeilDiv(T, D) THEN D ELSE T - (k - 1) * D]]

\* the text a deterministic acoustic model decodes from a chunk; the chunk
\* at index 1 is silent and decodes to the empty text
DecodeText(chunk) ==
    CASE chunk.idx = 0 -> <<"h", "i">>
      [] chunk.idx = 1 -> <<>>
      [] chunk.idx = 2 -> <<"o", SP, "k">>
      [] OTHER -> [k \in 1..chunk.idx |-> "z"]

\* lines 269 / 388
DeviceFor(cuda) == IF cuda THEN "cuda:0" ELSE "cpu"

\* GpuUpdateIncr with the half rounded down
GpuUpdateIncr_Floor(n) == IF n > 1 THEN n \div 2 ELSE 1

\* lines 271-273 / 390-392
GpuUpdateIncr(n) == IF n > 1 THEN CeilDiv(n, 2) ELSE 1

\* lines 279 / 397: whether the device-monitor checkpoint runs before chunk k
CheckpointDue(k, incr) == (k % incr = 0) /\ (incr # 0)

Abs(x) == IF x < 0 THEN -x ELSE x

\* wav2vec2_islarge with a tie counted as large
wav2vec2_islarge_TieLarge(model_obj) ==
    IF model_obj.family = "HubertForCTC" THEN FALSE
    ELSE IF model_obj.family # "Wav2Vec2ForCTC" THEN FALSE
    ELSE LET dist_from_base == Abs(model_obj.nparams - ApproxSizeBase)
             dist_from_large == Abs(model_obj.nparams - ApproxSizeLarge)
         IN dist_from_large <= dist_from_base

\* wav2vec2_islarge
wav2vec2_islarge(model_obj) ==
    IF model_obj.family = "HubertForCTC" THEN FALSE
    ELSE IF model_obj.family # "Wav2Vec2ForCTC" THEN FALSE
    ELSE LET dist_from_base == Abs(model_obj.nparams - ApproxSizeBase)
             dist_from_large == Abs(model_obj.nparams - ApproxSizeLarge)
         IN dist_from_large < dist_from_base

\* AppendFragment inserting at the front instead of appending
AppendFragment_Prepend(transc, this_transc) ==
    <<this_transc \o <<NL>>>> \o transc

\* lines 301 / 424: full_transc.append(f"{this_transc}\n")
AppendFragment(transc, this_transc) == Append(transc, this_transc \o <<NL>>)

\* lines 312 / 438
FullText(transc) == corr(Join(<<SP>>, transc))

\* lines 317 / 443: (len(chunk_directory) * chunk_dur) / 60, in thousandths
\* of a minute
DurationMin(nchunks, chunk_dur) == ((nchunks * chunk_dur) * 1000) \div 60

\* get_timestamp() of v2ct_utils: the reading of the clock, which is counted
\* in units of the resolution of the timestamp
get_timestamp(now) == now

\* MetadataRow with the length of the clip taken from the clock
MetadataRow_Elapsed(clip, chunks, chunk_dur, now, text) ==
    [clip |-> clip,
     chunk_count |-> Len(chunks),
     chunk_dur |-> chunk_dur,
     duration_min |-> get_timestamp(now),
     timestamp |-> get_timestamp(now),
     text |-> text,
     nchars |-> Len(text),
     nwords |-> Len(Split(text))]

\* lines 313-322 / 439-448: the row of the metadata table
MetadataRow(clip, chunks, chunk_dur, now, text) ==
    [clip |-> clip,
     chunk_count |-> Len(chunks),
     chunk_dur |-> chunk_dur,
     duration_min |-> DurationMin(Len(chunks), chunk_dur),
     timestamp |-> get_timestamp(now),
     text |-> text,
     nchars |-> Len(text),
     nwords |-> Len(Split(text))]

(***************************************************************************)
(* save_transc_results.                                                    *)
(***************************************************************************)
\* trim_fname of audio2text_functions: the normalized name of a media file,
\* its name without the extension
trim_fname(vid_name) ==
    CASE vid_name = "a.mp4" -> "a"
      [] vid_name = "b.wav" -> "b"
      [] vid_name = "c.mp3" -> "c"
      [] OTHER -> "d"

\* lines 207-208: the directories setup_out_dirs gives; transcribe_dir
\* returns the second (lines 665, 678)
TranscriptDir == "t_out"
MetadataDir == "m_out"

\* line 209: header = f"{trim_fname(vid_name)}_vid2txt_{get_timestamp()}",
\* made once in a call, at the time of the call
header(vid_name) == <<trim_fname(vid_name), "_vid2txt_", get_timestamp(clock)>>

\* lines 210-218: the transcript file
TranscriptsAfterSave(files, vid_name, ttext) ==
    Append(files, [clip |-> vid_name, text |-> ttext,
                   path |-> <<TranscriptDir, header(vid_name), "_full.txt">>])

\* MetadataAfterSave without the write of the metadata file
MetadataAfterSave_Dropped(files, vid_name, mdata) == files

\* MetadataAfterSave with the row appended to the one table of the run
MetadataAfterSave_RunTable(files, vid_name, mdata) ==
    IF files = <<>>
    THEN <<[clip |-> vid_name, table |-> mdata]>>
    ELSE <<[files[1] EXCEPT !.table = @ \o mdata]>>

\* line 220: the metadata file
MetadataAfterSave(files, vid_name, mdata) ==
    Append(files, [clip |-> vid_name, table |-> mdata,
                   path |-> <<MetadataDir, header(vid_name),
                              "_metadata.csv">>])

\* the outcome of the inference loop that is running
MarkOutcome(log, outcome) == [log EXCEPT ![Len(log)].outcome = outcome]
\* the scratch directory it made, and the length of the clip it read
MarkDir(log, dir) == [log EXCEPT ![Len(log)].dir = dir]
MarkDur(log, T) == [log EXCEPT ![Len(log)].dur = T]

\* the directory of the media files, and the default of temp_dir (lines 239
\* and 353)
SrcDir == "src_dir"
TempDir == "audio_chunks"

\* ac_storedir with the name of the clip in the path
ac_storedir_PerClip(src_dir, temp_dir) == <<src_dir, temp_dir, clip_name>>

\* lines 262 / 377: ac_storedir = join(src_dir, temp_dir)
ac_storedir(src_dir, temp_dir) == <<src_dir, temp_dir>>

\* a local variable is bound to a value made from chunk k
Rebind(bound, name, k) ==
    {b \in bound : b[1] # name} \cup {<<name, k>>}
Unbind(bound, names) == {b \in bound : b[1] \notin names}

(***************************************************************************)
(* transcribe_video_whisper.                                               *)
(***************************************************************************)
\* lines 262-275
Whisper_Segment ==
    /\ pc = "segment"
    /\ variant = "whisper"
    /\ \/ \* prep_transc_pydub cannot read the clip
          /\ scratch' = [scratch EXCEPT !.exists = TRUE]
          /\ exc' = "MediaReadError"
          /\ pc' = "raised"
          /\ loopLog' = MarkOutcome(MarkDir(loopLog,
                                             ac_storedir(SrcDir, TempDir)),
                                     "raised")
          /\ UNCHANGED <<clip_dur, chunk_directory, full_transc, i, device,
                         GPU_update_incr, checkpoints, cacheEmptied, held>>
       \/ \E T \in ClipDurations :
          LET chunks == Segment(clip_name, T, chunk_length) IN
          /\ clip_dur' = T
          /\ chunk_directory' = chunks
          /\ scratch' = [exists |-> TRUE,
                         chunks |-> scratch.chunks \cup
                                    {chunks[k] : k \in 1..Len(chunks)}]
          /\ device' = DeviceFor(cuda_available)
          /\ full_transc' = <<>>
          /\ GPU_update_incr' = GpuUpdateIncr(Len(chunks))
          /\ i' = 0
          /\ checkpoints' = {}
          /\ cacheEmptied' = 0
          /\ held' = {}
          /\ loopLog' = MarkDur(MarkDir(loopLog,
                                         ac_storedir(SrcDir, TempDir)), T)
          /\ pc' = "loop"
          /\ UNCHANGED exc
    /\ UNCHANGED <<envVars, sysVars, runVars, variant, clip_name, inflight, use_attn,
                   maskPassed, outVars, ppVars>>

\* lines 276-289: the head of the loop, the checkpoint, and the chunk read
\* and turned into input features
Whisper_LoadChunk ==
    /\ pc = "loop"
    /\ variant = "whisper"
    /\ IF i < Len(chunk_directory)
       THEN /\ checkpoints' = IF CheckpointDue(i, GPU_update_incr)
                              THEN checkpoints \cup {i} ELSE checkpoints
            /\ inflight' = inflight \cup {i}
            /\ held' = Rebind(held, "input_features", i)
            /\ pc' = "decode"
       ELSE /\ pc' = "finish"
            /\ UNCHANGED <<checkpoints, inflight, held>>
    /\ UNCHANGED <<envVars, sysVars, exc, runVars, variant, clip_name, clip_dur,
                   scratch, chunk_directory, full_transc, i, device, use_attn,
                   GPU_update_incr, cacheEmptied, maskPassed, loopLog,
                   outVars, ppVars>>

\* lines 290-305: generate, decode, append the fragment, empty the cache
Whisper_Decode ==
    /\ pc = "decode"
    /\ variant = "whisper"
    /\ \/ \* model.generate raises
          /\ exc' = "DecodeError"
          /\ pc' = "raised"
          /\ loopLog' = MarkOutcome(loopLog, "raised")
          /\ UNCHANGED <<full_transc, i, inflight, held, cacheEmptied>>
       \/ /\ full_transc' = AppendFragment(full_transc,
                                           DecodeText(chunk_directory[i + 1]))
          /\ held' = Rebind(held, "predicted_ids", i)
          /\ inflight' = inflight \ {i}
          /\ cacheEmptied' = IF device = "cuda:0"
                             THEN cacheEmptied + 1 ELSE cacheEmptied
          /\ i' = i + 1
          /\ pc' = "loop"
          /\ UNCHANGED <<exc, loopLog>>
    /\ UNCHANGED <<envVars, sysVars, runVars, variant, clip_name, clip_dur, scratch,
                   chunk_directory, device, use_attn, GPU_update_incr,
                   checkpoints, maskPassed, outVars, ppVars>>

\* lines 307-332: the metadata row, and save_transc_results
Whisper_Save ==
    /\ pc = "finish"
    /\ variant = "whisper"
    /\ LET full_text == FullText(full_transc)
           \* lines 310-312 / 436-438: a blank table, and one row put into it
           md_df == <<MetadataRow(clip_name, chunk_directory, chunk_length,
                                  clock, full_text)>>
       IN /\ transcripts' = TranscriptsAfterSave(transcripts, clip_name,
                                                 full_text)
          /\ metadata' = MetadataAfterSave(metadata, clip_name, md_df)
    /\ pc' = "rmtree"
    /\ UNCHANGED <<envVars, sysVars, exc, runVars, loopVars, loopLog, completed,
                   ppVars>>

\* line 334
Whisper_Rmtree ==
    /\ pc = "rmtree"
    /\ variant = "whisper"
    /\ scratch' = [exists |-> FALSE, chunks |-> {}]
    /\ pc' = "return"
    /\ UNCHANGED <<envVars, sysVars, exc, runVars, variant, clip_name, clip_dur,
                   chunk_directory, full_transc, i, inflight, held, device,
                   use_attn, GPU_update_incr, checkpoints, cacheEmptied,
                   maskPassed, loopLog, outVars, ppVars>>

\* lines 335-343
Whisper_Return ==
    /\ pc = "return"
    /\ variant = "whisper"
    /\ loopLog' = MarkOutcome(loopLog, "returned")
    /\ held' = {}
    /\ pc' = IF entry = "transcribe_dir" THEN "move" ELSE "done"
    /\ UNCHANGED <<envVars, sysVars, exc, runVars, variant, clip_name, clip_dur,
                   scratch, chunk_directory, full_transc, i, inflight, device,
                   use_attn, GPU_update_incr, checkpoints, cacheEmptied,
                   maskPassed, outVars, ppVars>>

(***************************************************************************)
(* transcribe_video_wav2vec.                                               *)
(***************************************************************************)
\* lines 377-393
W2V_Segment ==
    /\ pc = "segment"
    /\ variant = "wav2vec"
    /\ use_attn' = wav2vec2_islarge(loaded)
    /\ \/ \* prep_transc_pydub cannot read the clip
          /\ scratch' = [scratch EXCEPT !.exists = TRUE]
          /\ exc' = "MediaReadError"
          /\ pc' = "raised"
          /\ loopLog' = MarkOutcome(MarkDir(loopLog,
                                             ac_storedir(SrcDir, TempDir)),
                                     "raised")
          /\ UNCHANGED <<clip_dur, chunk_directory, full_transc, i, device,
                         GPU_update_incr, checkpoints, cacheEmptied, held,
                         maskPassed>>
       \/ \E T \in ClipDurations :
          LET chunks == Segment(clip_name, T, chunk_length) IN
          /\ clip_dur' = T
          /\ chunk_directory' = chunks
          /\ scratch' = [exists |-> TRUE,
                         chunks |-> scratch.chunks \cup
                                    {chunks[k] : k \in 1..Len(chunks)}]
          /\ device' = DeviceFor(cuda_available)
          /\ full_transc' = <<>>
          /\ GPU_update_incr' = GpuUpdateIncr(Len(chunks))
          /\ i' = 0
          /\ checkpoints' = {}
          /\ cacheEmptied' = 0
          /\ held' = {}
          /\ maskPassed' = {}
          /\ loopLog' = MarkDur(MarkDir(loopLog,
                                         ac_storedir(SrcDir, TempDir)), T)
          /\ pc' = "loop"
          /\ UNCHANGED exc
    /\ UNCHANGED <<envVars, sysVars, runVars, variant, clip_name, inflight, outVars,
                   ppVars>>

\* lines 394-410: the head of the loop, the checkpoint, and the chunk read
\* and tokenized
W2V_LoadChunk ==
    /\ pc = "loop"
    /\ variant = "wav2vec"
    /\ IF i < Len(chunk_directory)
       THEN /\ checkpoints' = IF CheckpointDue(i, GPU_update_incr)
                              THEN checkpoints \cup {i} ELSE checkpoints
            /\ inflight' = inflight \cup {i}
            /\ held' = LET h == Rebind(Rebind(held, "inputs", i),
                                       "input_values", i)
                       IN IF use_attn THEN Rebind(h, "attention_mask", i)
                          ELSE Unbind(h, {"attention_mask"})
            /\ pc' = "decode"
       ELSE /\ pc' = "finish"
            /\ UNCHANGED <<checkpoints, inflight, held>>
    /\ UNCHANGED <<envVars, sysVars, exc, runVars, variant, clip_name, clip_dur,
                   scratch, chunk_directory, full_transc, i, device, use_attn,
                   GPU_update_incr, cacheEmptied, maskPassed, loopLog,
                   outVars, ppVars>>

\* lines 411-431: the model call, argmax, decode, append the fragment,
\* delete the intermediates, empty the cache
W2V_Decode ==
    /\ pc = "decode"
    /\ variant = "wav2vec"
    /\ \/ \* the model call raises
          /\ exc' = "DecodeError"
          /\ pc' = "raised"
          /\ loopLog' = MarkOutcome(loopLog, "raised")
          /\ UNCHANGED <<full_transc, i, inflight, held, cacheEmptied,
                         maskPassed>>
       \/ /\ maskPassed' = IF use_attn THEN maskPassed \cup {i}
                           ELSE maskPassed
          /\ full_transc' = AppendFragment(full_transc,
                                           DecodeText(chunk_directory[i + 1]))
          /\ held' = Unbind(held, {"input_values", "logits", "predicted_ids"})
          /\ inflight' = inflight \ {i}
          /\ cacheEmptied' = IF device = "cuda:0"
                             THEN cacheEmptied + 1 ELSE cacheEmptied
          /\ i' = i + 1
          /\ pc' = "loop"
          /\ UNCHANGED <<exc, loopLog>>
    /\ UNCHANGED <<envVars, sysVars, runVars, variant, clip_name, clip_dur, scratch,
                   chunk_directory, device, use_attn, GPU_update_incr,
                   checkpoints, outVars, ppVars>>

\* lines 433-458: the metadata row, and save_transc_results
W2V_Save ==
    /\ pc = "finish"
    /\ variant = "wav2vec"
    /\ LET full_text == FullText(full_transc)
           \* lines 310-312 / 436-438: a blank table, and one row put into it
           md_df == <<MetadataRow(clip_name, chunk_directory, chunk_length,
                                  clock, full_text)>>
       IN /\ transcripts' = TranscriptsAfterSave(transcripts, clip_name,
                                                 full_text)
          /\ metadata' = MetadataAfterSave(metadata, clip_name, md_df)
    /\ pc' = "rmtree"
    /\ UNCHANGED <<envVars, sysVars, exc, runVars, loopVars, loopLog, completed,
                   ppVars>>

\* line 460
W2V_Rmtree ==
    /\ pc = "rmtree"
    /\ variant = "wav2vec"
    /\ scratch' = [exists |-> FALSE, chunks |-> {}]
    /\ pc' = "return"
    /\ UNCHANGED <<envVars, sysVars, exc, runVars, variant, clip_name, clip_dur,
                   chunk_directory, full_transc, i, inflight, held, device,
                   use_attn, GPU_update_incr, checkpoints, cacheEmptied,
                   maskPassed, loopLog, outVars, ppVars>>

\* lines 461-469
W2V_Return ==
    /\ pc = "return"
    /\ variant = "wav2vec"
    /\ loopLog' = MarkOutcome(loopLog, "returned")
    /\ held' = {}
    /\ pc' = IF entry = "transcribe_dir" THEN "move" ELSE "done"
    /\ UNCHANGED <<envVars, sysVars, exc, runVars, variant, clip_name, clip_dur,
                   scratch, chunk_directory, full_transc, i, inflight, device,
                   use_attn, GPU_update_incr, checkpoints, cacheEmptied,
                   maskPassed, outVars, ppVars>>

(***************************************************************************)
(* transcribe_dir: after a file's inference function has returned.         *)
(***************************************************************************)
\* CompletedAfterMove without the test of the flag
CompletedAfterMove_Always(done, flag, filename) == done \cup {filename}

\* lines 659-660: if move_comp: move2completed(...)
CompletedAfterMove(done, flag, filename) ==
    IF flag THEN done \cup {filename} ELSE done

\* lines 659-660, and the step to the next file
TD_MoveComp ==
    /\ pc = "move"
    /\ completed' = CompletedAfterMove(completed, move_comp,
                                       approved_files[fileIdx])
    /\ fileIdx' = fileIdx + 1
    /\ pc' = "files"
    /\ UNCHANGED <<envVars, sysVars, exc, is_whisper, model, loaded, base_spelling,
                   checker, stdout, initLog, approved_files, loopVars,
                   loopLog, transcripts, metadata, ppVars>>

(***************************************************************************)
(* postprocess_transc, as transcribe_dir calls it (lines 662-673).         *)
(***************************************************************************)
\* SpellMethod naming the advanced corrector whatever the flag
SpellMethod_Advanced(base) == "neuspell"

\* line 671
SpellMethod(base) == IF base THEN "symspell" ELSE "neuspell"

\* PostprocessChecker initialising a checker of its own whatever it is given
PostprocessChecker_Reinit(given, method, log) == NewHandle(method, log)

\* lines 501-506: the checker postprocess_transc works with
PostprocessChecker(given, method, log) ==
    IF given = NoHandle THEN NewHandle(method, log) ELSE given

\* lines 501-506: the initialiser calls postprocess_transc makes
PostprocessInits(given, method) ==
    IF given = NoHandle
    THEN IF method = "neuspell" THEN <<Call("init_neuspell", TRUE)>>
         ELSE <<Call("init_symspell", TRUE)>>
    ELSE <<>>

\* the transcript files an earlier run on the same directory left behind
PriorTxt(n) == [k \in 1..n |-> [run |-> "prior", clip |-> Files[k]]]

\* lines 518-520: the .txt files of the transcripts directory
TxtFiles(n, written) ==
    PriorTxt(n) \o [k \in 1..Len(written) |->
                       [run |-> "this", clip |-> written[k].clip]]

\* KwConcat with the keywords of the file put in place of the table
KwConcat_Replace(kw, qk_df) == <<qk_df>>

\* line 552: pd.concat([kw_all_vids, qk_df], axis=1); a column-set is named
\* by the file its keywords were taken from
KwConcat(kw, qk_df) == Append(kw, qk_df)

\* lines 498-522
PP_Start ==
    /\ pc = "post"
    /\ ppMethod' = SpellMethod(base_spelling)
    /\ ppChecker' = PostprocessChecker(checker, ppMethod', initLog)
    /\ initLog' = initLog \o PostprocessInits(checker, ppMethod')
    /\ txt_files' = TxtFiles(nprior, transcripts)
    /\ kw_all_vids' = <<>>
    /\ ppIdx' = 1
    /\ pc' = "pp_loop"
    /\ UNCHANGED <<envVars, sysVars, exc, is_whisper, model, loaded, base_spelling,
                   checker, stdout, approved_files, fileIdx, loopVars,
                   loopLog, outVars, PL_out, corrected, kwdb, processed_dir>>

\* lines 524-552: one transcript file is spell-corrected and its keywords
\* are added as one more column-set
PP_File ==
    /\ pc = "pp_loop"
    /\ ppIdx <= Len(txt_files)
    /\ corrected' = Append(corrected, [file |-> txt_files[ppIdx],
                                       checker |-> ppChecker,
                                       method |-> ppMethod])
    /\ PL_out' = "bound"
    /\ kw_all_vids' = KwConcat(kw_all_vids, txt_files[ppIdx])
    /\ ppIdx' = ppIdx + 1
    /\ UNCHANGED <<envVars, sysVars, pc, exc, runVars, loopVars, loopLog, outVars,
                   ppChecker, ppMethod, txt_files, kwdb, processed_dir>>

\* lines 554-559: the keyword database is written
PP_SaveKeywords ==
    /\ pc = "pp_loop"
    /\ ppIdx > Len(txt_files)
    /\ kwdb' = Append(kwdb, kw_all_vids)
    /\ pc' = "pp_return"
    /\ UNCHANGED <<envVars, sysVars, exc, runVars, loopVars, loopLog, outVars,
                   ppChecker, ppMethod, txt_files, ppIdx, PL_out,
                   kw_all_vids, corrected, processed_dir>>

\* line 561: PL_out is bound only inside the loop over the files
PP_Return ==
    /\ pc = "pp_return"
    /\ IF PL_out = "unbound"
       THEN /\ exc' = "UnboundLocalError"
            /\ pc' = "raised"
            /\ UNCHANGED processed_dir
       ELSE /\ processed_dir' = "SBD_dir"
            /\ pc' = "td_return"
            /\ UNCHANGED exc
    /\ UNCHANGED <<envVars, sysVars, runVars, loopVars, loopLog, outVars, ppChecker,
                   ppMethod, txt_files, ppIdx, PL_out, kw_all_vids, corrected,
                   kwdb>>

\* lines 675-678
TD_Return ==
    /\ pc = "td_return"
    /\ pc' = "done"
    /\ UNCHANGED <<envVars, sysVars, exc, runVars, loopVars, loopLog, outVars, ppVars>>

\* lines 783-785: the program prints the output locations transcribe_dir
\* returned; model_id is str(args.model), never None (line 768)
Main_Report ==
    /\ pc = "done"
    /\ entry = "transcribe_dir"
    /\ model_id # NoneVal
    /\ report' = <<"Complete. Relevant files for run are in:", processed_dir,
                   MetadataDir>>
    /\ pc' = "exit"
    /\ UNCHANGED <<envVars, clock, calls, exc, runVars, loopVars, loopLog,
                   outVars, ppVars>>

Next ==
    \/ TD_CheckWhisper
    \/ TD_LoadModel
    \/ TD_AcquireChecker
    \/ TD_ScanFiles
    \/ TD_NextFile
    \/ TD_MoveComp
    \/ TD_Return
    \/ Direct_Whisper
    \/ Direct_Wav2vec
    \/ Direct_Again
    \/ Tick
    \/ Whisper_Segment
    \/ Whisper_LoadChunk
    \/ Whisper_Decode
    \/ Whisper_Save
    \/ Whisper_Rmtree
    \/ Whisper_Return
    \/ W2V_Segment
    \/ W2V_LoadChunk
    \/ W2V_Decode
    \/ W2V_Save
    \/ W2V_Rmtree
    \/ W2V_Return
    \/ PP_Start
    \/ PP_File
    \/ PP_SaveKeywords
    \/ PP_Return
    \/ Main_Report

Spec == Init /\ [][Next]_vars

(***************************************************************************)
(* Properties.                                                             *)
(***************************************************************************)
Last(q) == q[Len(q)]
Terminated == pc \in {"done", "raised"}
InDir == entry = "transcribe_dir"
\* the number of entries of a sequence of saved files that belong to a clip
Saved(files, clip) == Cardinality({k \in 1..Len(files) : files[k].clip = clip})
\* the text of the claim's substring test
HasWhisper(id) == Contains(Lower(id), StrWhisper)

\* C1: once an inference loop (either variant) has exited, by return or by
\* an exception, the scratch chunk directory no longer exists.
C1_ScratchGoneAfterLoop ==
    (/\ loopLog # <<>>
     /\ \/ Last(loopLog).outcome = "returned"
        \/ Last(loopLog).outcome = "raised" /\ exc = "DecodeError")
        => ~scratch.exists

\* C2: in transcribe_dir, when the inference loop of some file fails, the
\* loop is still run for every later file and the postprocess stage runs.
C2_FailureDoesNotAbortBatch ==
    (InDir /\ Terminated
       /\ \E k \in 1..Len(loopLog) : loopLog[k].outcome = "raised")
        => /\ Len(loopLog) = Len(approved_files)
           /\ kwdb # <<>>

\* the loops over a file that returned, and the one that has saved its
\* results and has yet to return
Returned(f) ==
    Cardinality({k \in 1..Len(loopLog) :
                    loopLog[k].file = f /\ loopLog[k].outcome = "returned"})
SavedNotReturned(f) ==
    IF /\ loopLog # <<>>
       /\ Last(loopLog).file = f
       /\ pc \in {"rmtree", "return"}
    THEN 1 ELSE 0

\* C3: a loop that raised stored no transcript and no metadata row; a loop
\* that returned stored exactly one of each, so a file has as many of each as
\* loops over it returned; no transcript is ever stored without its metadata
\* row.
C3_PersistedIffLoopCompleted ==
    /\ \A k \in 1..Len(loopLog) :
          LET f == loopLog[k].file IN
          /\ Saved(transcripts, f) = Returned(f) + SavedNotReturned(f)
          /\ Saved(metadata, f) = Returned(f) + SavedNotReturned(f)
    /\ \A k \in 1..Len(transcripts) :
          Saved(metadata, transcripts[k].clip) >= 1

\* C3 witness: one file of the run was persisted and the next one failed
C3_Witness ==
    /\ Len(loopLog) = 2
    /\ loopLog[1].outcome = "returned"
    /\ loopLog[2].outcome = "raised"
    /\ exc = "DecodeError"
    /\ Len(metadata) = 1

\* C4: fragment k comes from chunk k, a chunk is decoded only when all
\* earlier fragments are recorded, at most one chunk is in flight, and the
\* stored transcript joins the fragments in chunk order.
C4_FragmentsInChunkOrder ==
    /\ Cardinality(inflight) <= 1
    /\ Len(full_transc) <= Len(chunk_directory)
    /\ \A k \in 1..Len(full_transc) :
          full_transc[k] = DecodeText(chunk_directory[k]) \o <<NL>>
    /\ pc = "decode" => (inflight = {i} /\ Len(full_transc) = i)
    /\ pc \in {"finish", "rmtree", "return"}
          => Len(full_transc) = Len(chunk_directory)
    /\ pc \in {"rmtree", "return"}
          => Last(transcripts).text =
                corr(Join(<<SP>>, [k \in 1..Len(chunk_directory) |->
                                      DecodeText(chunk_directory[k])
                                          \o <<NL>>]))

\* C4 witness: a generative loop that has decoded three chunks
C4_Witness ==
    /\ pc = "rmtree"
    /\ variant = "whisper"
    /\ Len(full_transc) = 3
    /\ Last(transcripts).text = <<"h", "i", SP, "o", SP, "k">>

\* C5: with no media file and no transcript file, transcribe_dir completes
\* without raising, with no metadata row and no keyword-database entry.
C5_EmptyDirectoryCompletes ==
    (InDir /\ Terminated /\ fileIdx >= 1 /\ approved_files = <<>>
       /\ nprior = 0)
        => /\ pc = "done"
           /\ exc = "none"
           /\ metadata = <<>>
           /\ \A k \in 1..Len(kwdb) : kwdb[k] = <<>>

\* C6: the stored row of a file of T seconds cut every D seconds has
\* chunk_count = ceil(T/D), a duration of T/60 minutes, and word_count equal
\* to the number of pieces of the text split on a single space.
C6_MetadataRowOfFile ==
    pc \in {"rmtree", "return"}
        => LET row == Last(metadata).table[1] IN
           /\ row.chunk_count = CeilDiv(clip_dur, chunk_length)
           /\ row.duration_min = (clip_dur * 1000) \div 60
           /\ row.nwords = Len(Split(row.text))

\* C7: in transcribe_dir's acquisition step a failure of the advanced
\* corrector is logged and answered with the basic corrector, whose handle
\* is used; an exception leaves the step only when the basic corrector
\* fails; a forced basic corrector never attempts the advanced one.
C7_AcquisitionDegrades ==
    (InDir /\ initLog # <<>>)
        => /\ basic_spelling
                => \A k \in 1..Len(initLog) :
                       initLog[k].call # "init_neuspell"
           /\ (~basic_spelling /\ initLog[1] = Call("init_neuspell", FALSE))
                => /\ Len(initLog) >= 3
                   /\ initLog[2].call = "logging.warning"
                   /\ initLog[3].call = "init_symspell"
                   /\ initLog[3].ok
                         => /\ checker.kind = "symspell"
                            /\ exc # "CorrectorInitError"
           /\ exc = "CorrectorInitError"
                => \E k \in 1..Len(initLog) :
                       initLog[k] = Call("init_symspell", FALSE)

\* C7 witness: the advanced corrector failed and the basic one was acquired
C7_Witness ==
    /\ pc = "scan"
    /\ ~basic_spelling
    /\ initLog[1] = Call("init_neuspell", FALSE)
    /\ checker.kind = "symspell"
    /\ exc = "none"

\* the state part of C8
HandleStable ==
    InDir =>
        /\ loopLog # <<>> => checker # NoHandle
        /\ ppChecker # NoHandle => ppChecker = checker
        /\ \A k \in 1..Len(corrected) : corrected[k].checker = checker
        /\ checker # NoHandle
              => /\ Cardinality({k \in 1..Len(initLog) :
                                    initLog[k].call = "init_neuspell"}) <= 1
                 /\ Last(initLog).call = IF checker.kind = "neuspell"
                                         THEN "init_neuspell"
                                         ELSE "init_symspell"

\* C8: the handle is chosen before any file is processed and never changes;
\* postprocess_transc gets and uses that handle for every transcript file
\* and initialises nothing; after a downgrade the advanced corrector is not
\* initialised again.
C8_HandleFixedForRun ==
    /\ []HandleStable
    /\ [][checker # NoHandle => checker' = checker]_vars

\* C8 witness: a run that downgraded and postprocessed two transcripts
C8_Witness ==
    /\ pc = "done"
    /\ ~basic_spelling
    /\ checker.kind = "symspell"
    /\ Len(corrected) >= 2

\* C9: for an identifier containing "whisper" in any letter case
\* transcribe_dir loads the Whisper model and runs every file with
\* transcribe_video_whisper; for any other identifier it runs every file with
\* transcribe_video_wav2vec.
C9_VariantFollowsIdentifier ==
    (InDir /\ Terminated /\ model_id # NoneVal)
        => IF HasWhisper(model_id)
           THEN /\ loaded.family = "WhisperForConditionalGeneration"
                /\ \A k \in 1..Len(loopLog) : loopLog[k].variant = "whisper"
           ELSE /\ loaded.family # "WhisperForConditionalGeneration"
                /\ \A k \in 1..Len(loopLog) : loopLog[k].variant = "wav2vec"

\* C10: with model_id left at None, transcribe_dir uses
\* "facebook/hubert-large-ls960-ft" with the CTC-argmax variant and the run
\* goes on.
C10_DefaultModelIsHubert ==
    (InDir /\ model_id = NoneVal /\ pc \notin {"start", "load"})
        => /\ exc # "AttributeError"
           /\ model = IdHubertLarge
           /\ loaded.family = "HubertForCTC"
           /\ ~is_whisper

\* the results stored by two loops over the same file
SameFile(j, k) ==
    /\ j \in 1..Len(metadata)
    /\ k \in 1..Len(metadata)
    /\ metadata[j].clip = metadata[k].clip
Unstamped(row) == [row EXCEPT !.timestamp = 0]

\* C11 as stated: two loops over the same file, with the same model and chunk
\* length, at any two times, store the same transcript and the same metadata
\* row in every column.
C11_RerunIdenticalInEveryColumn ==
    \A j, k \in 1..Len(metadata) :
        SameFile(j, k)
            => /\ transcripts[j].text = transcripts[k].text
               /\ metadata[j].table = metadata[k].table

\* C11: two loops over the same file, with the same model and chunk length,
\* at any two times, store the same transcript and metadata rows that are the
\* same in every column but the timestamp, which is the time of each loop.
C11_RerunIdenticalButTimestamp ==
    \A j, k \in 1..Len(metadata) :
        SameFile(j, k)
            => /\ transcripts[j].text = transcripts[k].text
               /\ Len(metadata[j].table) = 1
               /\ Len(metadata[k].table) = 1
               /\ Unstamped(metadata[j].table[1])
                     = Unstamped(metadata[k].table[1])

\* C11 witness: the same file was transcribed twice, at two times, and its
\* transcript is not empty
C11_Witness ==
    /\ Len(metadata) = 2
    /\ metadata[1].clip = metadata[2].clip
    /\ metadata[1].table[1].timestamp # metadata[2].table[1].timestamp
    /\ transcripts[2].text # <<>>
    /\ pc = "done"


\* transcribe_dir has processed every file of the run
AllProcessed ==
    /\ InDir
    /\ pc \notin {"start", "load", "acquire", "scan"}
    /\ Len(loopLog) = Len(approved_files)
    /\ \A k \in 1..Len(loopLog) : loopLog[k].outcome = "returned"

C13_KeywordDatabaseOncePerRun ==
    /\ Len(kwdb) <= 1
    /\ pc = "pp_loop"
          => /\ kwdb = <<>>
             /\ kw_all_vids = SubSeq(txt_files, 1, ppIdx - 1)
    /\ pc \in {"start", "load", "acquire", "scan", "files", "segment",
                "loop", "decode", "finish", "rmtree", "return", "move",
                "post"}
          => kwdb = <<>>
    /\ (pc \in {"pp_return", "td_return"} \/ (InDir /\ pc \in {"done", "exit"}))
          => /\ kwdb = <<txt_files>>
             /\ Len(kwdb[1]) = Len(txt_files)

\* C13 witness: the database of a run over two or more transcript files was
\* written
C13_Witness ==
    /\ pc = "pp_return"
    /\ Len(txt_files) >= 2
    /\ Len(kwdb) = 1


\* the program, started from the command line, has ended: it printed its
\* report, or the decoding of a chunk of one of its files raised
ProgramEnded ==
    /\ entry = "transcribe_dir"
    /\ model_id # NoneVal
    /\ \/ pc = "exit"
       \/ pc = "raised" /\ exc = "DecodeError"

\* C14: every run of the program, a run in which a file failed included,
\* ends with a final report that names the corrected-text directory and the
\* metadata directory.
C14_EveryRunEndsWithReport ==
    ProgramEnded
        => /\ Len(report) = 3
           /\ report[3] = MetadataDir


\* the cadence for N chunks: the least c >= 1 with 2c >= N
Cadence(N) == CHOOSE c \in 1..N : 2 * c >= N /\ 2 * (c - 1) < N

\* the chunks of the current file whose processing has begun
Started ==
    IF pc = "decode" \/ (pc = "raised" /\ exc = "DecodeError")
    THEN i + 1
    ELSE i

\* C15: in both variants, with N >= 1 chunks and c = max(1, ceil(N/2)), the
\* checkpoint has run before chunk k exactly for the chunks k begun so far
\* with k mod c = 0; so it has run before chunk 0.
C15_CheckpointCadence ==
    (pc \in {"loop", "decode", "finish", "rmtree", "return"}
        \/ (pc = "raised" /\ exc = "DecodeError"))
        => /\ Len(chunk_directory) >= 1
           /\ checkpoints =
                 {k \in 0..(Started - 1) :
                     k % Cadence(Len(chunk_directory)) = 0}
           /\ Started >= 1 => 0 \in checkpoints

\* C15 witness: a file of three chunks, the third begun: the checkpoint ran
\* before chunks 0 and 2 and not before chunk 1
C15_Witness ==
    /\ pc = "decode"
    /\ Len(chunk_directory) = 3
    /\ i = 2
    /\ checkpoints = {0, 2}


\* a Wav2Vec2ForCTC whose parameter count is strictly closer to the large
\* reference size than to the base one, that is above their midpoint
CloserToLarge(m) ==
    /\ m.family = "Wav2Vec2ForCTC"
    /\ 2 * m.nparams > ApproxSizeBase + ApproxSizeLarge

\* C16: wav2vec2_islarge is True exactly for a Wav2Vec2ForCTC strictly
\* closer to the large size (a tie gives False), and False for Hubert and
\* every other class whatever the count; in transcribe_video_wav2vec the
\* flag is that result for every chunk of the file, and the attention mask
\* was passed for every chunk decoded iff the flag is True.
C16_AttentionMaskIffLarge ==
    /\ wav2vec2_islarge(loaded) = CloserToLarge(loaded)
    /\ (variant = "wav2vec"
          /\ pc \in {"loop", "decode", "finish", "rmtree", "return"})
          => /\ use_attn = CloserToLarge(loaded)
             /\ maskPassed = IF use_attn THEN 0..(i - 1) ELSE {}

\* C16 witness: every chunk of a file of three chunks was decoded with the
\* attention mask, by a large Wav2Vec2ForCTC
C16_Witness ==
    /\ variant = "wav2vec"
    /\ pc = "finish"
    /\ loaded.family = "Wav2Vec2ForCTC"
    /\ loaded.nparams = ApproxSizeLarge
    /\ maskPassed = {0, 1, 2}


\* the loop is at its head, about to begin chunk i, with chunk i - 1 done
NextChunkStarts ==
    /\ pc = "loop"
    /\ i >= 1
    /\ i < Len(chunk_directory)

\* C17: in both variants, on the accelerated device, when the next chunk
\* starts none of the intermediates of the chunk before (encoded inputs,
\* attention mask, model outputs, predicted ids) is still held, and the
\* device cache was emptied once after each chunk; on the fallback device
\* the cache is never emptied.
C17_IntermediatesReleasedPerChunk ==
    /\ (NextChunkStarts /\ device = "cuda:0")
          => /\ \A b \in held : b[2] # i - 1
             /\ cacheEmptied = i
    /\ (pc \in {"loop", "decode", "finish"} /\ device = "cpu")
          => cacheEmptied = 0


\* the class each identifier of the runs stands for: wavlm, in any case of
\* letters, before hubert, in any case of letters, before the default
ExpectedFamily(id) ==
    CASE id \in {IdWavLM, IdWavLMHubert} -> "WavLMForCTC"
      [] id \in {IdHubertLarge, IdHubertMixed} -> "HubertForCTC"
      [] OTHER -> "Wav2Vec2ForCTC"

\* C18: load_wav2vec2_modules loads a WavLMForCTC when the identifier
\* contains wavlm, else a HubertForCTC when it contains hubert, else a
\* Wav2Vec2ForCTC, whatever the case of the letters.
C18_FamilyPrecedence ==
    loaded.family \notin {"none", WhisperFamily(model)}
        => /\ model \in CtcIds
           /\ loaded.family = ExpectedFamily(model)

\* C18 witness: an identifier with both hubert and wavlm in it was loaded
C18_Witness ==
    /\ model = IdWavLMHubert
    /\ loaded.family = "WavLMForCTC"
    /\ pc = "loop"


\* C19: two different media files of a run, both cut into chunks, never use
\* the same scratch directory, so the scratch directory of a loop holds no
\* chunk of another file.
C19_ScratchUniquePerFile ==
    /\ \A j, k \in 1..Len(loopLog) :
          (/\ loopLog[j].file # loopLog[k].file
           /\ loopLog[j].dur # 0
           /\ loopLog[k].dur # 0)
              => loopLog[j].dir # loopLog[k].dir
    /\ pc \in {"loop", "decode", "finish"}
          => \A c \in scratch.chunks : c.file = clip_name


\* the files moved so far are, with the flag set, the files whose loop has
\* returned and that transcribe_dir has gone past, and none without it
MovedAreReturned ==
    /\ ~move_comp => completed = {}
    /\ \A f \in completed :
          /\ Returned(f) >= 1
          /\ Saved(transcripts, f) >= 1
          /\ Saved(metadata, f) >= 1
    /\ \A k \in 1..Len(loopLog) :
          loopLog[k].outcome = "raised" => loopLog[k].file \notin completed
    /\ (InDir /\ move_comp /\ pc = "files")
          => completed = {approved_files[k] : k \in 1..(fileIdx - 1)}

\* the results of a file are stored when all its chunks are decoded and its
\* scratch directory is still there; the scratch directory is deleted when
\* the results of the file are stored; a file is moved when the flag is set,
\* its loop has returned and its scratch directory is gone
StepsInOrder ==
    /\ (transcripts' # transcripts \/ metadata' # metadata)
          => /\ i = Len(chunk_directory)
             /\ Len(full_transc) = Len(chunk_directory)
             /\ scratch.exists
             /\ Len(transcripts') = Len(transcripts) + 1
             /\ Len(metadata') = Len(metadata) + 1
             /\ completed' = completed
    /\ (scratch.exists /\ ~scratch'.exists)
          => /\ SavedNotReturned(clip_name) = 1
             /\ Last(transcripts).clip = clip_name
             /\ Last(metadata).clip = clip_name
             /\ clip_name \notin completed
    /\ completed' # completed
          => /\ move_comp
             /\ ~scratch.exists
             /\ Last(loopLog).outcome = "returned"
             /\ Last(transcripts).clip = Last(loopLog).file
             /\ Last(metadata).clip = Last(loopLog).file
             /\ completed' = completed \cup {Last(loopLog).file}

\* C20: for each file of transcribe_dir: all chunks decoded, then transcript
\* and metadata stored, then the scratch directory deleted, then, only with
\* the flag set, the file moved; a file is never moved before its results
\* are stored and its scratch directory removed, nor with the flag unset,
\* nor when its loop failed.
C20_PerFileStepOrder == []MovedAreReturned /\ [][StepsInOrder]_vars

\* C20 witness: both files of a run were moved, each after its results were
\* stored and its scratch directory removed
C20_Witness ==
    /\ InDir
    /\ move_comp
    /\ completed = {Files[1], Files[2]}
    /\ Len(transcripts) = 2
    /\ ~scratch.exists
    /\ pc = "done"


\* the transcript files the inference loops of this run have written
ThisRunTxt ==
    {[run |-> "this", clip |-> transcripts[k].clip] :
        k \in 1..Len(transcripts)}

\* C21: the transcript files postprocess_transc corrects and takes keywords
\* from are exactly those written by the inference loops of this run; a file
\* left by an earlier run is not processed again and gives no column-set to
\* the keyword database of this run.
C21_OnlyThisRunsTranscripts ==
    /\ \A k \in 1..Len(corrected) : corrected[k].file \in ThisRunTxt
    /\ \A k \in 1..Len(kw_all_vids) : kw_all_vids[k] \in ThisRunTxt
    /\ \A d \in 1..Len(kwdb) :
          \A k \in 1..Len(kwdb[d]) : kwdb[d][k].run = "this"
    /\ (InDir /\ pc \in {"pp_return", "td_return", "done", "exit"})
          => {corrected[k].file : k \in 1..Len(corrected)} = ThisRunTxt


\* C22: two calls of save_transc_results for the same input file write
\* their transcripts to different paths and their metadata to different
\* paths, so no call overwrites the file of a call before; in one call the
\* transcript file and the metadata file have the same header.
C22_NoPathCollision ==
    /\ \A j, k \in 1..Len(transcripts) :
          (j # k /\ transcripts[j].clip = transcripts[k].clip)
              => /\ transcripts[j].path # transcripts[k].path
                 /\ metadata[j].path # metadata[k].path
    /\ \A k \in 1..Len(transcripts) :
          /\ k <= Len(metadata)
          /\ transcripts[k].path[2] = metadata[k].path[2]


\* how the handle of the run was acquired, read from the calls made
AdvancedSucceeded == initLog # <<>> /\ initLog[1] = Call("init_neuspell", TRUE)
Downgraded == initLog # <<>> /\ initLog[1] = Call("init_neuspell", FALSE)

\* C23: in every run of transcribe_dir the method name given to
\* postprocess_transc matches the handle acquired: "symspell" iff the handle
\* is the basic corrector's (forced, or after a downgrade), "neuspell" iff
\* the advanced corrector initialised.
C23_MethodMatchesHandle ==
    (InDir /\ ppMethod # "none")
        => /\ ppMethod = checker.kind
           /\ ppMethod = "symspell" <=> (basic_spelling \/ Downgraded)
           /\ ppMethod = "neuspell" <=> AdvancedSucceeded
           /\ ppChecker = checker

\* C23 witness: a run that downgraded postprocesses with the basic method
C23_Witness ==
    /\ pc = "pp_loop"
    /\ ~basic_spelling
    /\ Downgraded
    /\ checker.kind = "symspell"
    /\ ppMethod = "symspell"
    /\ Len(corrected) >= 1


\* C24: on every way out of the acquisition of the spell checker (advanced
\* success, downgrade to basic, forced basic, and the basic initialiser
\* raising) standard output is the console again.
C24_StdoutRestored ==
    (InDir /\ initLog # <<>>) => stdout = "console"

=============================================================================
